---- MODULE Spec2Model ----
(***************************************************************************)
(* PyUE4Builder: the build driver (build_script), the engine bootstrap     *)
(* (ensure_engine) and the step runner (run_build_steps) of                *)
(* src/PyUE4Builder/build_script.py as one sequential state machine.       *)
(*                                                                         *)
(* The program is single threaded: pc is the position of the one thread.   *)
(* What the program reads from outside (the command line, the loaded       *)
(* configuration, the script's step lists, answers of prompts, exit codes  *)
(* of launched processes, results of actions) is drawn from small sets,    *)
(* either in Init (command line, configuration) or where the code reads it *)
(* (everything else).  Every step list of the script is walked at most     *)
(* once in a run, so drawing a step descriptor when the loop reaches it is *)
(* the same as fixing the script up front.                                 *)
(***************************************************************************)
EXTENDS Integers, Sequences, FiniteSets, TLC

VARIABLES
    pc,               \* position of the single thread
    config,           \* the driver's ProjectConfig object
    driverCfg,        \* history: config as written by the driver alone
    engine_override,  \* --engine
    buildtype,        \* --buildtype
    build,            \* --build
    clean,            \* --clean
    script,           \* what is fixed of config.script up front: the names it uses
                      \* as keys of "meta" (seed_keys), in the steps' "meta" lists
                      \* (requested_keys), as keys of "meta_updates" (updated_keys)
                      \* and as keys of "args" (arg_names)
    actions_write,    \* whether the actions write to the configuration object they
                      \* hold (Build and Git are external collaborators)
    can_pull_engine,  \* local of ensure_engine (line 168)
    clean_revert,     \* local of build_script (lines 105, 120)
    effects,          \* history: external calls of driver and bootstrap, in order,
                      \* with the exit codes of the processes ensure_engine launched
    error,            \* message given to error_exit, "" while running
    meta,             \* build_meta: the attributes of the BuildMeta object
    persisted,        \* the metadata snapshot on disk
    steps_name,       \* run_build_steps: the group being run
    ret,              \* run_build_steps: where the caller continues
    idx,              \* number of entries taken so far by the for loop that is running
    step,             \* run_build_steps: the step descriptor of the current iteration
    b,                \* run_build_steps: the action instance of the current step
    stepEvents,       \* history: what was done for the current step, in order
    outcome,          \* history: how the last step taken ended
    written,          \* history: metadata keys written by steps of this run
    allowedFailure    \* history: group in which an allowed failure cut the group short
                      \* ("" when none happened)

vars == <<pc, config, driverCfg, engine_override, buildtype, build, clean, script,
          actions_write,
          can_pull_engine,
          clean_revert, effects, error, meta, persisted, steps_name, ret, idx, step, b,
          stepEvents, outcome, written, allowedFailure>>

bootVars == <<meta, persisted, steps_name, ret, idx, step, b, stepEvents, outcome,
              written, allowedFailure, buildtype, build, clean, script, actions_write,
              clean_revert>>

----------------------------------------------------------------------------
(* Bounds and input sets *)

MaxSteps == 2          \* steps per group
MaxTools == 1          \* entries of config.build_engine_tools

EngineOverrides == {"", "E1", "E2", "./E1"}
PromptPaths == {"P1"}
EnginePathNames == {"", "/abs", "rel"}
MetaKeys == {"foo", "bar"}
MetaValues == {41, 42}
ArgValues == {7}
OutputNames == {"barAttr", "bazAttr"}

\* A partial mapping from keys K to values V (a dict).
Dicts(K, V) == UNION {[D -> V] : D \in SUBSET K}

EmptyDict == [k \in {} |-> 0]

\* dict.update(): the entries of new replace those of old.
Update(old, new) ==
    [k \in (DOMAIN old) \cup (DOMAIN new) |-> IF k \in DOMAIN new THEN new[k] ELSE old[k]]

\* A step descriptor none of whose fields was read yet.  A field of the
\* descriptor is drawn where the code reads it and kept in step from then on.
NoStep == [enabled |-> TRUE, allow_failure |-> FALSE, module |-> "",
           meta |-> {}, args |-> EmptyDict,
           has_meta_updates |-> FALSE, meta_updates |-> EmptyDict]

NoAction == [made |-> FALSE, config |-> "none", kwargs |-> EmptyDict,
             outputs |-> EmptyDict, error |-> ""]

----------------------------------------------------------------------------
(* utility.common.error_exit: prints the message and ends the process. *)

error_exit(msg) ==
    /\ pc' = "aborted"
    /\ error' = msg

----------------------------------------------------------------------------
(* Collaborators of the driver whose code is outside build_script.py *)

\* os.path.abspath on the path names of the model: "./E1" names directory E1.
abspath(p) == IF p = "./E1" THEN "E1" ELSE p

\* ProjectConfig.setup_engine_paths(path): points the configuration at the
\* engine installed at path; an empty path keeps the installation already known.
setup_engine_paths(cfg, path) ==
    IF path = "" THEN cfg ELSE [cfg EXCEPT !.UE4EnginePath = path]

\* What an action may do to the configuration object it holds: the actions are
\* external collaborators, so an action may or may not write to it; with
\* actions_write false no action does.
Tamper(cfg, t) == IF t /\ actions_write THEN [cfg EXCEPT !.clean = ~@] ELSE cfg

\* An action built as Cls(config): it holds the very object it was given, so
\* its writes (t) land in the driver's configuration.
RunDirect(name, ok, t) ==
    /\ effects' = Append(effects, name)
    /\ config' = Tamper(config, t)
    /\ ok \in BOOLEAN

----------------------------------------------------------------------------
(* ensure_engine(config, engine_override), lines 162-249 *)

\* EE_NoPathFail without the error_exit of line 172: the code falls through to
\* the prompt and the default location.
EE_NoPathFallsThrough ==
    /\ pc = "ee_entry"
    /\ config.UE4EnginePath = ""
    /\ ~(config.git_repo # "" /\ config.git_proj_branch # "") /\ engine_override = ""
    /\ can_pull_engine' = FALSE
    /\ effects' = effects \o <<"confirm", "makedirs">>
    /\ config' = [config EXCEPT !.UE4EnginePath = "UnrealEngine_proj"]
    /\ driverCfg' = [driverCfg EXCEPT !.UE4EnginePath = "UnrealEngine_proj"]
    /\ pc' = "ee_git"
    /\ UNCHANGED <<engine_override, error>>
    /\ UNCHANGED bootVars

\* lines 168-173: no engine path, nothing to pull, no override.
EE_NoPathFail ==
    /\ pc = "ee_entry"
    /\ config.UE4EnginePath = ""
    /\ ~(config.git_repo # "" /\ config.git_proj_branch # "") /\ engine_override = ""
    /\ error_exit("Static engine placement required for non-git pulled engine.")
    /\ can_pull_engine' = (config.git_repo # "" /\ config.git_proj_branch # "")
    /\ UNCHANGED <<config, driverCfg, engine_override, effects>>
    /\ UNCHANGED bootVars

\* EE_UseOverride with the tests of lines 175-178 the other way round: git
\* coordinates win over the override and the engine goes to the default location.
EE_UseOverrideAfterGit ==
    /\ pc = "ee_entry"
    /\ config.UE4EnginePath = ""
    /\ engine_override # ""
    /\ can_pull_engine' = (config.git_repo # "" /\ config.git_proj_branch # "")
    /\ LET path == IF can_pull_engine' THEN "UnrealEngine_proj"
                   ELSE abspath(engine_override)
       IN  /\ config' = setup_engine_paths(config, path)
           /\ driverCfg' = setup_engine_paths(driverCfg, path)
    /\ pc' = "ee_git"
    /\ UNCHANGED <<engine_override, effects, error>>
    /\ UNCHANGED bootVars

\* lines 175-176: no engine path, an override is given.
EE_UseOverride ==
    /\ pc = "ee_entry"
    /\ config.UE4EnginePath = ""
    /\ engine_override # ""
    /\ can_pull_engine' = (config.git_repo # "" /\ config.git_proj_branch # "")
    /\ config' = setup_engine_paths(config, abspath(engine_override))
    /\ driverCfg' = setup_engine_paths(driverCfg, abspath(engine_override))
    /\ pc' = "ee_git"
    /\ UNCHANGED <<engine_override, effects, error>>
    /\ UNCHANGED bootVars

\* lines 178-186: no engine path, no override, git configured; the user names
\* the install location.
EE_PromptPath ==
    /\ pc = "ee_entry"
    /\ config.UE4EnginePath = ""
    /\ engine_override = ""
    /\ config.git_repo # "" /\ config.git_proj_branch # ""
    /\ can_pull_engine' = TRUE
    /\ \E result \in PromptPaths, exists \in BOOLEAN, made \in BOOLEAN :
         LET asked == <<"confirm", "prompt">> IN
         IF exists
           THEN /\ effects' = effects \o asked
                /\ config' = setup_engine_paths(config, result)
                /\ driverCfg' = setup_engine_paths(driverCfg, result)
                /\ pc' = "ee_git"
                /\ UNCHANGED error
           ELSE /\ effects' = effects \o asked \o <<"makedirs">>
                /\ IF made
                     THEN /\ config' = setup_engine_paths(config, result)
                          /\ driverCfg' = setup_engine_paths(driverCfg, result)
                          /\ pc' = "ee_git"
                          /\ UNCHANGED error
                     ELSE /\ error_exit("Unable to create engine directory!")
                          /\ UNCHANGED <<config, driverCfg>>
    /\ UNCHANGED engine_override
    /\ UNCHANGED bootVars

\* lines 189-197: the default location of the engine.
DefaultEnginePath(cfg) ==
    IF cfg.engine_path_name = "" THEN "UnrealEngine_proj"
    ELSE IF cfg.engine_path_name = "/abs" THEN cfg.engine_path_name
    ELSE "proj/rel"

\* lines 178, 187-204: no engine path, no override, git configured; the user
\* declines to name a location and the default location is used.
EE_DefaultPath ==
    /\ pc = "ee_entry"
    /\ config.UE4EnginePath = ""
    /\ engine_override = ""
    /\ config.git_repo # "" /\ config.git_proj_branch # ""
    /\ can_pull_engine' = TRUE
    /\ \E exists \in BOOLEAN, made \in BOOLEAN :
         LET engine_path == DefaultEnginePath(config) IN
         IF exists
           THEN /\ effects' = effects \o <<"confirm">>
                /\ config' = setup_engine_paths(config, engine_path)
                /\ driverCfg' = setup_engine_paths(driverCfg, engine_path)
                /\ pc' = "ee_git"
                /\ UNCHANGED error
           ELSE /\ effects' = effects \o <<"confirm", "makedirs">>
                /\ IF made
                     THEN /\ config' = setup_engine_paths(config, engine_path)
                          /\ driverCfg' = setup_engine_paths(driverCfg, engine_path)
                          /\ pc' = "ee_git"
                          /\ UNCHANGED error
                     ELSE /\ error_exit("Unable to create engine directory!")
                          /\ UNCHANGED <<config, driverCfg>>
    /\ UNCHANGED engine_override
    /\ UNCHANGED bootVars

\* EE_Conflict without the error_exit of line 206: the pass goes on.
EE_ConflictIgnored ==
    /\ pc = "ee_entry"
    /\ config.UE4EnginePath # ""
    /\ config.UE4EnginePath # engine_override /\ engine_override # ""
    /\ can_pull_engine' = (config.git_repo # "" /\ config.git_proj_branch # "")
    /\ pc' = "ee_git"
    /\ UNCHANGED <<config, driverCfg, engine_override, effects, error>>
    /\ UNCHANGED bootVars

\* lines 205-206: an engine path is known and a different override is given.
EE_Conflict ==
    /\ pc = "ee_entry"
    /\ config.UE4EnginePath # ""
    /\ config.UE4EnginePath # engine_override /\ engine_override # ""
    /\ can_pull_engine' = (config.git_repo # "" /\ config.git_proj_branch # "")
    /\ error_exit("Specific engine path requested, but engine path for this project already exists?")
    /\ UNCHANGED <<config, driverCfg, engine_override, effects>>
    /\ UNCHANGED bootVars

\* lines 170, 205: an engine path is known and no different override is given.
EE_PathKnown ==
    /\ pc = "ee_entry"
    /\ config.UE4EnginePath # ""
    /\ ~(config.UE4EnginePath # engine_override /\ engine_override # "")
    /\ can_pull_engine' = (config.git_repo # "" /\ config.git_proj_branch # "")
    /\ pc' = "ee_git"
    /\ UNCHANGED <<config, driverCfg, engine_override, effects, error>>
    /\ UNCHANGED bootVars

\* lines 209-217: pull the engine when git is configured.
EE_Git ==
    /\ pc = "ee_git"
    /\ IF can_pull_engine
         THEN \E ok \in BOOLEAN, t \in BOOLEAN :
                /\ RunDirect("git", ok, t)
                /\ IF ok THEN pc' = "ee_setup" /\ UNCHANGED error
                         ELSE error_exit("git failed")
         ELSE /\ pc' = "ee_setup"
              /\ UNCHANGED <<config, effects, error>>
    /\ UNCHANGED <<driverCfg, engine_override, can_pull_engine>>
    /\ UNCHANGED bootVars

\* lines 219-220: setup_engine_paths(engine_override) must succeed.
EE_Setup ==
    /\ pc = "ee_setup"
    /\ \E ok \in BOOLEAN :
         IF ok
           THEN /\ config' = setup_engine_paths(config, engine_override)
                /\ driverCfg' = setup_engine_paths(driverCfg, engine_override)
                /\ pc' = "ee_register"
                /\ UNCHANGED error
           ELSE /\ error_exit("Could not setup valid engine paths!")
                /\ UNCHANGED <<config, driverCfg>>
    /\ UNCHANGED <<engine_override, can_pull_engine, effects>>
    /\ UNCHANGED bootVars

\* EE_Register without the test of line 224: every engine is registered.
EE_RegisterAlways ==
    /\ pc = "ee_register"
    /\ effects' = Append(effects, "register")
    /\ pc' = "ee_deps"
    /\ UNCHANGED <<config, driverCfg, engine_override, can_pull_engine, error>>
    /\ UNCHANGED bootVars

\* lines 222-225: register the engine unless it is an un-keyed static engine.
EE_Register ==
    /\ pc = "ee_register"
    /\ effects' = IF config.UE4EngineKeyName # "" THEN Append(effects, "register")
                  ELSE effects
    /\ pc' = "ee_deps"
    /\ UNCHANGED <<config, driverCfg, engine_override, can_pull_engine, error>>
    /\ UNCHANGED bootVars

\* EE_EditorRunning without the test of line 227: the dependencies are synced
\* though the editor runs.
EE_EditorRunningSyncs ==
    /\ pc = "ee_deps"
    /\ config.editor_running
    /\ effects' = Append(effects, "sync")
    /\ pc' = "ee_ubt"
    /\ UNCHANGED <<config, driverCfg, engine_override, can_pull_engine, error>>
    /\ UNCHANGED bootVars

\* line 227, editor running: ensure_engine returns.
EE_EditorRunning ==
    /\ pc = "ee_deps"
    /\ config.editor_running
    /\ pc' = "ee_return"
    /\ UNCHANGED <<config, driverCfg, engine_override, can_pull_engine, effects, error>>
    /\ UNCHANGED bootVars

\* What effects keeps of the exit code launch() returned.
ExitEntry(code) == IF code = 0 THEN "exit 0" ELSE "exit nonzero"

ExitCodes == {0, 1}

\* EE_Sync without the test of line 240: the exit code of the sync is ignored.
EE_SyncIgnoresExit ==
    /\ pc = "ee_deps"
    /\ ~config.editor_running
    /\ \E code \in ExitCodes :
         /\ effects' = effects \o <<"sync", ExitEntry(code)>>
         /\ pc' = "ee_ubt"
         /\ UNCHANGED error
    /\ UNCHANGED <<config, driverCfg, engine_override, can_pull_engine>>
    /\ UNCHANGED bootVars

\* lines 227-241: sync the engine dependencies.
EE_Sync ==
    /\ pc = "ee_deps"
    /\ ~config.editor_running
    /\ \E code \in ExitCodes :
         /\ effects' = effects \o <<"sync", ExitEntry(code)>>
         /\ IF code # 0 THEN error_exit("Engine dependencies Failed to Sync!")
                         ELSE pc' = "ee_ubt" /\ UNCHANGED error
    /\ UNCHANGED <<config, driverCfg, engine_override, can_pull_engine>>
    /\ UNCHANGED bootVars

\* lines 243-249: generate the project files when the build tool is missing.
\* effects keeps what os.path.isfile answered for the build tool.
EE_BuildTool ==
    /\ pc = "ee_ubt"
    /\ \E isfile \in BOOLEAN, code \in ExitCodes :
         IF isfile
           THEN /\ effects' = Append(effects, "ubt present")
                /\ pc' = "ee_return"
                /\ UNCHANGED error
           ELSE /\ effects' = effects \o <<"ubt missing", "genproj", ExitEntry(code)>>
                /\ IF code # 0 THEN error_exit("Failed to build UnrealBuildTool.exe!")
                               ELSE pc' = "ee_return" /\ UNCHANGED error
    /\ UNCHANGED <<config, driverCfg, engine_override, can_pull_engine>>
    /\ UNCHANGED bootVars

ensure_engine ==
    \/ EE_NoPathFail
    \/ EE_UseOverride
    \/ EE_PromptPath
    \/ EE_DefaultPath
    \/ EE_Conflict
    \/ EE_PathKnown
    \/ EE_Git
    \/ EE_Setup
    \/ EE_Register
    \/ EE_EditorRunning
    \/ EE_Sync
    \/ EE_BuildTool


----------------------------------------------------------------------------
(* BuildMeta (build_meta.py): the metadata store *)

\* BuildMeta(name): the store starts from the snapshot on disk.
load_meta(disk) == disk

\* insert_meta(**kwargs): sets every given key.
insert_meta(store, kwargs) == Update(store, kwargs)

\* collect_meta(keys): the values of the requested keys; a requested key the
\* store does not hold is an error naming the key.
MissingKeys(store, keys) == keys \ DOMAIN store

collect_meta(store, keys) == [k \in keys |-> store[k]]

\* save_meta(): the snapshot on disk is replaced by the store.
save_meta(store) == store

----------------------------------------------------------------------------
(* run_build_steps(config, build_meta, steps_name, complain_missing_step),  *)
(* lines 252-317.  config.script is never None here: line 91 of the driver  *)
(* has already evaluated "meta" in config.script.                           *)

ArgNames == {"foo", "opt"}

stepVars == <<config, driverCfg, engine_override, buildtype, build, clean, script,
              actions_write,
              can_pull_engine, clean_revert, effects>>

\* lines 261-266 and 316-317: entering run_build_steps from the caller.
\* in_script is the result of steps_name in config.script; cont is where the
\* caller continues when the function returns.
run_build_steps(name, in_script, cont) ==
    /\ steps_name' = name
    /\ ret' = cont
    /\ idx' = 0
    /\ step' = NoStep
    /\ b' = NoAction
    /\ stepEvents' = <<>>
    /\ IF in_script
         THEN pc' = "rbs_loop" /\ outcome' = ""
         ELSE pc' = cont /\ outcome' = "no_such_group"

\* run_build_steps returns (end of the list, lines 297 and 305): the caller
\* continues, the locals of the call are gone.
Return(how) ==
    /\ pc' = ret
    /\ idx' = 0
    /\ step' = NoStep
    /\ b' = NoAction
    /\ outcome' = how

\* line 267: the list is exhausted, the function returns.
RBS_End ==
    /\ pc = "rbs_loop"
    /\ Return("end_of_list")
    /\ stepEvents' = <<>>
    /\ UNCHANGED <<steps_name, ret, written, allowedFailure, meta, persisted, error>>
    /\ UNCHANGED stepVars

\* SkipDisabled without the test of line 268: the disabled step is built.
SkipDisabledBuilt(s) ==
    /\ s.enabled = FALSE
    /\ step' = s
    /\ b' = [made |-> TRUE, config |-> config, kwargs |-> EmptyDict,
             outputs |-> EmptyDict, error |-> ""]
    /\ stepEvents' = <<"construct">>
    /\ outcome' = ""
    /\ idx' = idx + 1
    /\ pc' = "rbs_verify"
    /\ UNCHANGED <<steps_name, ret, written, allowedFailure, meta, persisted, error>>

\* lines 268-269: a disabled step is passed over.
SkipDisabled(s) ==
    /\ s.enabled = FALSE
    /\ step' = s
    /\ b' = NoAction
    /\ stepEvents' = <<>>
    /\ outcome' = "disabled"
    /\ idx' = idx + 1
    /\ UNCHANGED <<pc, steps_name, ret, written, allowedFailure, meta, persisted, error>>

RBS_Disabled ==
    /\ pc = "rbs_loop"
    /\ idx < MaxSteps
    /\ SkipDisabled([NoStep EXCEPT !.enabled = FALSE])
    /\ UNCHANGED stepVars

\* line 274: importlib.import_module raises for a module that does not exist;
\* the exception reaches line 322 and ends the run.
RBS_ImportError ==
    /\ pc = "rbs_loop"
    /\ idx < MaxSteps
    /\ step' = [NoStep EXCEPT !.module = "missing_module"]
    /\ b' = NoAction
    /\ stepEvents' = <<>>
    /\ outcome' = "import_error"
    /\ idx' = idx + 1
    /\ error_exit("No module named missing_module")
    /\ UNCHANGED <<steps_name, ret, written, allowedFailure, meta, persisted>>
    /\ UNCHANGED stepVars

\* NoClass ending the run instead of warning and continuing.
NoClassFatal(s) ==
    /\ s.module = "no_class"
    /\ step' = s
    /\ b' = NoAction
    /\ stepEvents' = <<>>
    /\ outcome' = "no_class"
    /\ idx' = idx + 1
    /\ error_exit("action class could not be found!")
    /\ UNCHANGED <<steps_name, ret, written, allowedFailure, meta, persisted>>

\* lines 275-279: the module has no class of the derived name.
NoClass(s) ==
    /\ s.module = "no_class"
    /\ step' = s
    /\ b' = NoAction
    /\ stepEvents' = <<"warning">>
    /\ outcome' = "no_class"
    /\ idx' = idx + 1
    /\ UNCHANGED <<pc, steps_name, ret, written, allowedFailure, meta, persisted, error>>

RBS_NoClass ==
    /\ pc = "rbs_loop"
    /\ idx < MaxSteps
    /\ NoClass([NoStep EXCEPT !.module = "no_class"])
    /\ UNCHANGED stepVars

\* MergedArgs with the two updates of lines 284 and 287 in the other order: a
\* requested metadata value replaces the static arg of the same name.
MergedArgsMetaWins(store, s) == Update(s.args, collect_meta(store, s.meta))

\* lines 281-287: the keyword arguments of the action.
MergedArgs(store, s) == Update(collect_meta(store, s.meta), s.args)

\* lines 283-284: a requested key is not in the store; collect_meta raises, the
\* exception reaches line 322 and ends the run.
CollectError(s) ==
    /\ s.module = "ok"
    /\ MissingKeys(meta, s.meta) # {}
    /\ step' = s
    /\ b' = NoAction
    /\ stepEvents' = <<>>
    /\ outcome' = "missing_meta"
    /\ idx' = idx + 1
    /\ \E k \in MissingKeys(meta, s.meta) : error_exit("missing meta key: " \o k)
    /\ UNCHANGED <<steps_name, ret, written, allowedFailure, meta, persisted>>

RBS_CollectError ==
    /\ pc = "rbs_loop"
    /\ idx < MaxSteps
    /\ \E m \in SUBSET script.requested_keys :
         CollectError([NoStep EXCEPT !.module = "ok", !.meta = m])
    /\ UNCHANGED stepVars

\* Construct that passes over requested keys the store does not hold.
ConstructLenient(s) ==
    /\ s.module = "ok"
    /\ step' = s
    /\ b' = [made |-> TRUE, config |-> config,
             kwargs |-> Update(collect_meta(meta, s.meta \cap DOMAIN meta), s.args),
             outputs |-> EmptyDict, error |-> ""]
    /\ stepEvents' = <<"construct">>
    /\ outcome' = ""
    /\ idx' = idx + 1
    /\ pc' = "rbs_verify"
    /\ UNCHANGED <<steps_name, ret, written, allowedFailure, meta, persisted, error>>

\* lines 281-291: the action is built on a deep copy of the configuration.
Construct(s) ==
    /\ s.module = "ok"
    /\ MissingKeys(meta, s.meta) = {}
    /\ step' = s
    /\ b' = [made |-> TRUE, config |-> config, kwargs |-> MergedArgs(meta, s),
             outputs |-> EmptyDict, error |-> ""]
    /\ stepEvents' = <<"construct">>
    /\ outcome' = ""
    /\ idx' = idx + 1
    /\ pc' = "rbs_verify"
    /\ UNCHANGED <<steps_name, ret, written, allowedFailure, meta, persisted, error>>

RBS_Construct ==
    /\ pc = "rbs_loop"
    /\ idx < MaxSteps
    /\ \E m \in SUBSET script.requested_keys, a \in Dicts(script.arg_names, ArgValues) :
         Construct([NoStep EXCEPT !.module = "ok", !.meta = m, !.args = a])
    /\ UNCHANGED stepVars

\* Verify with "continue" in place of the "return" of line 297: an allowed
\* failure goes on with the next step of the group.
VerifyContinues(verify_error, allow_failure) ==
    /\ IF verify_error # ""
         THEN IF allow_failure
                THEN /\ pc' = "rbs_loop"
                     /\ outcome' = "verify_allowed"
                     /\ step' = [step EXCEPT !.allow_failure = allow_failure]
                     /\ stepEvents' = stepEvents \o <<"verify", "warning">>
                     /\ allowedFailure' = steps_name
                     /\ UNCHANGED <<idx, b, error>>
                ELSE /\ error_exit(verify_error)
                     /\ step' = [step EXCEPT !.allow_failure = allow_failure]
                     /\ stepEvents' = Append(stepEvents, "verify")
                     /\ outcome' = "verify_fatal"
                     /\ UNCHANGED <<idx, b, allowedFailure>>
         ELSE /\ pc' = "rbs_run"
              /\ stepEvents' = Append(stepEvents, "verify")
              /\ UNCHANGED <<idx, step, b, outcome, allowedFailure, error>>
    /\ UNCHANGED <<steps_name, ret, written, meta, persisted>>

\* Verify without the error_exit of line 299: a failed verify is followed by run().
VerifyNotFatal(verify_error, allow_failure) ==
    /\ IF verify_error # "" /\ allow_failure
         THEN /\ Return("verify_allowed")
              /\ stepEvents' = stepEvents \o <<"verify", "warning">>
              /\ allowedFailure' = steps_name
              /\ UNCHANGED error
         ELSE /\ pc' = "rbs_run"
              /\ stepEvents' = Append(stepEvents, "verify")
              /\ outcome' = IF verify_error # "" THEN "verify_fatal" ELSE outcome
              /\ UNCHANGED <<idx, step, b, allowedFailure, error>>
    /\ UNCHANGED <<steps_name, ret, written, meta, persisted>>

\* lines 292-299: verify() and the handling of its message.
Verify(verify_error, allow_failure) ==
    /\ IF verify_error # ""
         THEN IF allow_failure
                THEN /\ Return("verify_allowed")
                     /\ stepEvents' = stepEvents \o <<"verify", "warning">>
                     /\ allowedFailure' = steps_name
                     /\ UNCHANGED error
                ELSE /\ error_exit(verify_error)
                     /\ step' = [step EXCEPT !.allow_failure = allow_failure]
                     /\ stepEvents' = Append(stepEvents, "verify")
                     /\ outcome' = "verify_fatal"
                     /\ UNCHANGED <<idx, b, allowedFailure>>
         ELSE /\ pc' = "rbs_run"
              /\ stepEvents' = Append(stepEvents, "verify")
              /\ UNCHANGED <<idx, step, b, outcome, allowedFailure, error>>
    /\ UNCHANGED <<steps_name, ret, written, meta, persisted>>

RBS_Verify ==
    /\ pc = "rbs_verify"
    /\ \E verify_error \in {"", "verify failed"}, allow_failure \in BOOLEAN :
         /\ (verify_error = "" => allow_failure = FALSE)
         /\ Verify(verify_error, allow_failure)
    /\ UNCHANGED stepVars

\* lines 301-307: run() and the handling of its result.  The action may write
\* to the configuration it holds (t), which is its own copy.
Run(ok, t, allow_failure) ==
    /\ IF ~ok
         THEN IF allow_failure
                THEN /\ Return("run_allowed")
                     /\ stepEvents' = stepEvents \o <<"run", "warning">>
                     /\ allowedFailure' = steps_name
                     /\ UNCHANGED error
                ELSE /\ error_exit("run failed")
                     /\ step' = [step EXCEPT !.allow_failure = allow_failure]
                     /\ b' = [b EXCEPT !.config = Tamper(@, t), !.error = "run failed"]
                     /\ stepEvents' = Append(stepEvents, "run")
                     /\ outcome' = "run_fatal"
                     /\ UNCHANGED <<idx, allowedFailure>>
         ELSE /\ b' = [b EXCEPT !.config = Tamper(@, t)]
              /\ pc' = "rbs_meta"
              /\ stepEvents' = Append(stepEvents, "run")
              /\ UNCHANGED <<idx, step, outcome, allowedFailure, error>>
    /\ UNCHANGED <<steps_name, ret, written, meta, persisted>>

RBS_Run ==
    /\ pc = "rbs_run"
    /\ \E ok \in BOOLEAN, t \in BOOLEAN, allow_failure \in BOOLEAN :
         /\ (ok => allow_failure = FALSE)
         /\ Run(ok, t, allow_failure)
    /\ UNCHANGED stepVars

\* MetaUpdates that reads the attribute named like the metadata key
\* (getattr(b, k) in place of getattr(b, v)).
MetaUpdatesByKey(store, updates, outputs) ==
    [k \in (DOMAIN store) \cup {u \in DOMAIN updates : u \in DOMAIN outputs} |->
        IF k \in DOMAIN updates /\ k \in DOMAIN outputs THEN outputs[k] ELSE store[k]]

\* lines 311-314: the outputs named by meta_updates that the action has (and
\* that are not None) are set in the store.
MetaUpdates(store, updates, outputs) ==
    [k \in (DOMAIN store) \cup {u \in DOMAIN updates : updates[u] \in DOMAIN outputs} |->
        IF k \in DOMAIN updates /\ updates[k] \in DOMAIN outputs
          THEN outputs[updates[k]]
          ELSE store[k]]

\* DoMetaUpdates without the save_meta() of line 315.
DoMetaUpdatesNoSave(has, updates, outputs) ==
    /\ step' = [step EXCEPT !.has_meta_updates = has, !.meta_updates = updates]
    /\ b' = [b EXCEPT !.outputs = outputs]
    /\ outcome' = "done"
    /\ pc' = "rbs_loop"
    /\ IF has
         THEN /\ meta' = [k \in (DOMAIN meta) \cup
                              {u \in DOMAIN updates : updates[u] \in DOMAIN outputs} |->
                            IF k \in DOMAIN updates /\ updates[k] \in DOMAIN outputs
                              THEN outputs[updates[k]] ELSE meta[k]]
              /\ stepEvents' = stepEvents \o <<"meta">>
              /\ written' = written \cup
                    {u \in DOMAIN updates : updates[u] \in DOMAIN outputs}
              /\ UNCHANGED persisted
         ELSE UNCHANGED <<meta, persisted, stepEvents, written>>
    /\ UNCHANGED <<steps_name, ret, idx, allowedFailure, error>>

\* lines 309-315: the meta updates of a step that succeeded, and the save.
\* outputs are the attributes of the action that line 312 reads: a name is in
\* outputs when the action has the attribute and it is not None.
DoMetaUpdates(has, updates, outputs) ==
    /\ step' = [step EXCEPT !.has_meta_updates = has, !.meta_updates = updates]
    /\ b' = [b EXCEPT !.outputs = outputs]
    /\ outcome' = "done"
    /\ pc' = "rbs_loop"
    /\ IF has
         THEN /\ meta' = MetaUpdates(meta, updates, outputs)
              /\ persisted' = save_meta(meta')
              /\ stepEvents' = stepEvents \o <<"meta", "save">>
              /\ written' = written \cup
                    {u \in DOMAIN updates : updates[u] \in DOMAIN outputs}
         ELSE UNCHANGED <<meta, persisted, stepEvents, written>>
    /\ UNCHANGED <<steps_name, ret, idx, allowedFailure, error>>

Range(f) == {f[x] : x \in DOMAIN f}

RBS_MetaUpdates ==
    /\ pc = "rbs_meta"
    /\ \E has \in BOOLEAN, updates \in Dicts(script.updated_keys, OutputNames) :
         /\ (~has => updates = EmptyDict)
         /\ \E outputs \in Dicts(Range(updates), MetaValues) :
              DoMetaUpdates(has, updates, outputs)
    /\ UNCHANGED stepVars

RunBuildSteps ==
    \/ RBS_End
    \/ RBS_Disabled
    \/ RBS_ImportError
    \/ RBS_NoClass
    \/ RBS_CollectError
    \/ RBS_Construct
    \/ RBS_Verify
    \/ RBS_Run
    \/ RBS_MetaUpdates

----------------------------------------------------------------------------
(* Package (actions/package.py): the packaging action.  The instance is     *)
(* held in b, as for every step of run_build_steps; effects keeps what run() *)
(* does outside (each entry a tuple of strings: the call and its arguments), *)
(* stepEvents keeps the calls made on the instance and what they returned.   *)

MaxVerifyCalls == 2    \* calls of verify() on one instance

Toggles == {"build", "cook", "package", "stage", "archive"}
BuildKinds == {"standalone", "client", "server", "bogus"}

\* kwargs.get(k, default) as lines 30-49 spell it.
Get(d, k, default) == IF k \in DOMAIN d THEN d[k] ELSE default

\* Every option other than the toggles, pak_assets and build_type, set to the
\* opposite of its default.
OtherArgs ==
    [k \in {"nativize_assets", "compressed_assets", "no_debug_info", "full_rebuild",
            "no_editor_content", "ignore_cook_errors", "use_debug_editor_cmd",
            "maps", "content_black_list"} |->
        CASE k \in {"nativize_assets", "compressed_assets"} -> FALSE
          [] k = "maps" -> <<"m1", "m2">>
          [] k = "content_black_list" -> "bl.txt"
          [] OTHER -> TRUE]

\* The "args" a package step of the script may give.
PackageArgs ==
    {Update(Update(Update(t, p), k), o) :
        t \in Dicts(Toggles, BOOLEAN),
        p \in Dicts({"pak_assets"}, {FALSE}),
        k \in Dicts({"build_type"}, BuildKinds),
        o \in {EmptyDict, OtherArgs}}

\* lines 27-49: Package.__init__.  error is the field of Action, empty until
\* run() sets it.
Package_init(cfg, kwargs) ==
    [made |-> TRUE, config |-> cfg, kwargs |-> kwargs, outputs |-> EmptyDict,
     error |-> "",
     pak_assets |-> Get(kwargs, "pak_assets", TRUE),
     nativize_assets |-> Get(kwargs, "nativize_assets", TRUE),
     compressed_assets |-> Get(kwargs, "compressed_assets", TRUE),
     no_debug_info |-> Get(kwargs, "no_debug_info", FALSE),
     full_rebuild |-> Get(kwargs, "full_rebuild", FALSE),
     no_editor_content |-> Get(kwargs, "no_editor_content", FALSE),
     ignore_cook_errors |-> Get(kwargs, "ignore_cook_errors", FALSE),
     use_debug_editor_cmd |-> Get(kwargs, "use_debug_editor_cmd", FALSE),
     build_type |-> Get(kwargs, "build_type", ""),
     maps |-> Get(kwargs, "maps", <<>>),
     build |-> Get(kwargs, "build", TRUE),
     cook |-> Get(kwargs, "cook", TRUE),
     package |-> Get(kwargs, "package", TRUE),
     stage |-> Get(kwargs, "stage", TRUE),
     archive |-> Get(kwargs, "archive", TRUE),
     content_black_list |-> Get(kwargs, "content_black_list", "")]

valid_build_types == {"standalone", "client", "server"}

EnvironmentMessage == "Environment is not ready for building or packaging!"

\* Package_verify that only checks: build_type is left as it is.
Package_verifyPure(self) ==
    IF ~self.config.environment_ready
      THEN [self |-> self, result |-> EnvironmentMessage]
      ELSE [self |-> self, result |-> ""]

\* lines 51-61: Package.verify; the instance after the call and what it returns.
Package_verify(self) ==
    IF ~self.config.environment_ready
      THEN [self |-> self, result |-> EnvironmentMessage]
      ELSE [self |-> IF self.build_type \notin valid_build_types
                       THEN [self EXCEPT !.build_type = "standalone"]
                       ELSE self,
            result |-> ""]

\* cmd_args.append(flag) under a condition.
Flag(cond, flag) == IF cond THEN <<flag>> ELSE <<>>

\* '+'.join(maps)
RECURSIVE Join(_)
Join(maps) ==
    IF Len(maps) = 0 THEN ""
    ELSE IF Len(maps) = 1 THEN maps[1]
    ELSE maps[1] \o "+" \o Join(Tail(maps))

\* StageFlags with -archive given only when staging (as -pak is).
StageFlagsArchiveNeedsStage(self) ==
    Flag(self.build, "-build") \o Flag(self.cook, "-cook")
      \o Flag(self.package, "-package") \o Flag(self.stage, "-stage")
      \o Flag(self.archive /\ self.stage, "-archive")

\* lines 113-122: the flags of the pipeline stages.
StageFlags(self) ==
    Flag(self.build, "-build") \o Flag(self.cook, "-cook")
      \o Flag(self.package, "-package") \o Flag(self.stage, "-stage")
      \o Flag(self.archive, "-archive")

\* lines 101-150: the argument vector of the packaging process.
CmdArgs(self) ==
    <<"-ScriptsForProject=proj.uproject", "BuildCookRun", "-nocompileeditor",
      "-NoHotReload", "-nop4", "-project=proj.uproject", "-archivedirectory=builds",
      "-clientconfig=Development", "-serverconfig=Development",
      "-ue4exe=" \o (IF self.use_debug_editor_cmd THEN "UE4Editor-Win64-Debug-Cmd.exe"
                     ELSE "UE4Editor-Cmd.exe"),
      "-prereqs", "-targetplatform=Win64", "-platform=Win64",
      "-servertargetplatform=Win64", "-serverplatform=Win64", "-CrashReporter",
      "-utf8output">>
      \o StageFlags(self)
      \o (IF self.build_type = "client" THEN <<"-client">>
          ELSE IF self.build_type = "server" THEN <<"-server", "-noclient">>
          ELSE <<>>)
      \o Flag(self.nativize_assets, "-nativizeAssets")
      \o Flag(self.pak_assets /\ self.stage, "-pak")
      \o Flag(self.compressed_assets, "-compressed")
      \o Flag(self.no_debug_info, "-nodebuginfo")
      \o Flag(self.no_editor_content, "-SkipCookingEditorContent")
      \o Flag(self.ignore_cook_errors, "-IgnoreCookErrors")
      \o Flag(Len(self.maps) > 0, "-map=" \o Join(self.maps))
      \o (IF self.config.clean \/ self.full_rebuild THEN <<"-clean">>
          ELSE <<"-iterate", "-iterativecooking">>)
      \o <<"-compile">>

\* lines 70-85: the build directory removed when cleaning.
CleanCalls(self) ==
    IF ~self.config.clean THEN <<>>
    ELSE IF self.build_type = "client" THEN << <<"rmtree", "WindowsClient">> >>
    ELSE IF self.build_type = "server" THEN << <<"rmtree", "WindowsServer">> >>
    ELSE << <<"rmtree", "WindowsNoEditor">> >>

\* LaunchFailed that leaves the error field as verify() set it.
LaunchFailedSilent(self) == self

\* lines 153-155: the packaging process exited with a code other than 0.
LaunchFailed(self) == [self EXCEPT !.error = "Unable to build proj!"]

pkgVars == <<config, driverCfg, engine_override, buildtype, build, clean, script,
             actions_write,
             can_pull_engine, clean_revert, meta, persisted, steps_name, ret, idx,
             written, allowedFailure>>

\* lines 281-291 of build_script.py: the package step's action is built from
\* the merged arguments, Package.__init__ taking its options from them.
PKG_New ==
    /\ pc = "pkg_new"
    /\ \E a \in PackageArgs :
         /\ step' = [NoStep EXCEPT !.module = "actions.package", !.args = a]
         /\ b' = Package_init(config, MergedArgs(meta, step'))
    /\ pc' = "pkg_made"
    /\ UNCHANGED <<effects, error, stepEvents, outcome>>
    /\ UNCHANGED pkgVars

\* lines 51-61: a call of verify() on the instance (line 292 of build_script.py).
PKG_Verify ==
    /\ pc = "pkg_made"
    /\ Len(stepEvents) < MaxVerifyCalls
    /\ LET v == Package_verify(b)
       IN  /\ b' = v.self
           /\ stepEvents' = Append(stepEvents, <<"verify", v.result>>)
    /\ UNCHANGED <<pc, step, effects, error, outcome>>
    /\ UNCHANGED pkgVars

\* lines 63-161: run().  An exception of the blacklist copy leaves run() without
\* a result and ends the process at line 322 of build_script.py.
PKG_Run ==
    /\ pc = "pkg_made"
    /\ LET v == Package_verify(b)
           self == [v.self EXCEPT !.error = v.result]
           blacklist == self.content_black_list # ""
       IN  IF self.error # ""
             THEN /\ b' = self
                  /\ outcome' = "False"
                  /\ pc' = "pkg_done"
                  /\ UNCHANGED <<effects, error>>
             ELSE \E copied \in BOOLEAN, code \in ExitCodes, isfile \in BOOLEAN :
                    LET before == effects \o CleanCalls(self)
                                    \o (IF blacklist THEN << <<"copyfile", self.content_black_list>> >>
                                        ELSE <<>>)
                        launched == before \o << <<"launch">> \o CmdArgs(self),
                                                 <<ExitEntry(code)>> >>
                    IN  /\ (~blacklist => copied)
                        /\ (blacklist => isfile)
                        /\ IF ~copied
                             THEN /\ b' = self
                                  /\ effects' = before
                                  /\ outcome' = "raised"
                                  /\ error_exit("copyfile failed")
                             ELSE IF code # 0
                                    THEN /\ b' = LaunchFailed(self)
                                         /\ effects' = launched
                                         /\ outcome' = "False"
                                         /\ pc' = "pkg_done"
                                         /\ UNCHANGED error
                                    ELSE /\ b' = self
                                         /\ effects' = launched \o
                                               (IF isfile THEN << <<"unlink">> >> ELSE <<>>)
                                         /\ outcome' = "True"
                                         /\ pc' = "pkg_done"
                                         /\ UNCHANGED error
    /\ UNCHANGED <<step, stepEvents>>
    /\ UNCHANGED pkgVars

Package ==
    \/ PKG_New
    \/ PKG_Verify
    \/ PKG_Run

----------------------------------------------------------------------------
(* build_script(engine, script, configuration, buildtype, build, platform,  *)
(* clean), lines 54-159                                                     *)

drvVars == <<engine_override, build, clean, script, actions_write, can_pull_engine, written,
            allowedFailure>>

runVars == <<steps_name, ret, idx, step, b, stepEvents, outcome>>

\* lines 65-92: the build type fixup, the environment and script checks, and
\* the metadata store, loaded from disk and seeded from the script's meta.
BS_Load ==
    /\ pc = "start"
    /\ buildtype' = IF buildtype = "Game" THEN "Editor" ELSE buildtype
    /\ \E seed \in Dicts(script.seed_keys, MetaValues) :
         meta' = insert_meta(load_meta(persisted), seed)
    /\ pc' = "ee_entry"
    /\ UNCHANGED <<config, driverCfg, clean_revert, effects, error, persisted>>
    /\ UNCHANGED drvVars
    /\ UNCHANGED runVars

\* lines 69-72: no valid Visual Studio; build_script returns False.
BS_NoVisualStudio ==
    /\ pc = "start"
    /\ buildtype' = IF buildtype = "Game" THEN "Editor" ELSE buildtype
    /\ pc' = "returned"
    /\ UNCHANGED <<config, driverCfg, clean_revert, effects, error, meta, persisted>>
    /\ UNCHANGED drvVars
    /\ UNCHANGED runVars

\* lines 74-86: no script file, a syntax error in it, or a configuration that
\* does not load.
BS_BadScript ==
    /\ pc = "start"
    /\ buildtype' = IF buildtype = "Game" THEN "Editor" ELSE buildtype
    /\ \E msg \in {"No build script defined! Use the -s arg",
                   "Build Script Syntax Error",
                   "Failed to load configuration. See errors above."} :
         error_exit(msg)
    /\ UNCHANGED <<config, driverCfg, clean_revert, effects, meta, persisted>>
    /\ UNCHANGED drvVars
    /\ UNCHANGED runVars

\* b = Build(config, ...) or Package(config), then run(): the action is built
\* on the driver's configuration object itself.
DirectAction(name, next) ==
    \E ok \in BOOLEAN, t \in BOOLEAN :
        /\ RunDirect(name, ok, t)
        /\ IF ok THEN pc' = next /\ UNCHANGED error
                 ELSE error_exit(name \o " failed")

\* lines 98-102: build the header tool when its binary is missing.
BS_HeaderTool ==
    /\ pc = "ee_return"
    /\ \E isfile \in BOOLEAN :
         IF isfile
           THEN pc' = "bs_tools" /\ UNCHANGED <<config, effects, error>>
           ELSE DirectAction("Build UnrealHeaderTool", "bs_tools")
    /\ UNCHANGED <<driverCfg, buildtype, clean_revert, meta, persisted>>
    /\ UNCHANGED drvVars
    /\ UNCHANGED runVars

\* lines 105-107: remember the clean flag; packaging does not clean.
BS_ToolsBegin ==
    /\ pc = "bs_tools"
    /\ clean_revert' = config.clean
    /\ config' = IF buildtype = "Package" THEN [config EXCEPT !.clean = FALSE] ELSE config
    /\ driverCfg' = IF buildtype = "Package" THEN [driverCfg EXCEPT !.clean = FALSE]
                    ELSE driverCfg
    /\ idx' = 0
    /\ pc' = "bs_tool_loop"
    /\ UNCHANGED <<buildtype, effects, error, meta, persisted>>
    /\ UNCHANGED drvVars
    /\ UNCHANGED <<steps_name, ret, step, b, stepEvents, outcome>>

\* lines 108-111: build one of config.build_engine_tools.
BS_Tool ==
    /\ pc = "bs_tool_loop"
    /\ idx < MaxTools
    /\ idx' = idx + 1
    /\ DirectAction("Build tool", "bs_tool_loop")
    /\ UNCHANGED <<driverCfg, buildtype, clean_revert, meta, persisted>>
    /\ UNCHANGED drvVars
    /\ UNCHANGED <<steps_name, ret, step, b, stepEvents, outcome>>

\* BS_ToolsEnd without the assignment of line 112: the clean flag stays as the
\* tools were built with.
BS_ToolsEndNoRestore ==
    /\ pc = "bs_tool_loop"
    /\ idx' = 0
    /\ pc' = "bs_dispatch"
    /\ UNCHANGED <<config, driverCfg, buildtype, clean_revert, effects, error, meta,
                   persisted>>
    /\ UNCHANGED drvVars
    /\ UNCHANGED <<steps_name, ret, step, b, stepEvents, outcome>>

\* line 112: the tools are built, the clean flag is put back.
BS_ToolsEnd ==
    /\ pc = "bs_tool_loop"
    /\ config' = [config EXCEPT !.clean = clean_revert]
    /\ driverCfg' = [driverCfg EXCEPT !.clean = clean]
    /\ idx' = 0
    /\ pc' = "bs_dispatch"
    /\ UNCHANGED <<buildtype, clean_revert, effects, error, meta, persisted>>
    /\ UNCHANGED drvVars
    /\ UNCHANGED <<steps_name, ret, step, b, stepEvents, outcome>>

\* lines 115-116: --build names the only group to run.
BS_BuildOnly ==
    /\ pc = "bs_dispatch"
    /\ build # ""
    /\ \E in_script \in BOOLEAN : run_build_steps(build, in_script, "bs_save")
    /\ UNCHANGED <<config, driverCfg, buildtype, clean_revert, effects, error, meta,
                   persisted>>
    /\ UNCHANGED drvVars

\* lines 119-126: the editor is not running; build the engine editor.
BS_EngineEditor ==
    /\ pc = "bs_dispatch"
    /\ build = ""
    /\ ~config.editor_running
    /\ clean_revert' = config.clean
    /\ \E ok \in BOOLEAN, t \in BOOLEAN :
         LET cfg == IF buildtype = "Package" THEN [config EXCEPT !.clean = FALSE]
                    ELSE config
         IN  /\ effects' = Append(effects, "Build UE4Editor")
             /\ IF ok
                  THEN /\ config' = [Tamper(cfg, t) EXCEPT !.clean = clean_revert']
                       /\ driverCfg' = [driverCfg EXCEPT !.clean = clean]
                       /\ pc' = "bs_pre"
                       /\ UNCHANGED error
                  ELSE /\ config' = Tamper(cfg, t)
                       /\ driverCfg' = IF buildtype = "Package"
                                       THEN [driverCfg EXCEPT !.clean = FALSE]
                                       ELSE driverCfg
                       /\ error_exit("Build UE4Editor failed")
    /\ UNCHANGED <<buildtype, meta, persisted>>
    /\ UNCHANGED drvVars
    /\ UNCHANGED runVars

\* lines 127-128: the editor is running; the engine build is skipped.
BS_SkipEngineEditor ==
    /\ pc = "bs_dispatch"
    /\ build = ""
    /\ config.editor_running
    /\ pc' = "bs_pre"
    /\ UNCHANGED <<config, driverCfg, buildtype, clean_revert, effects, error, meta,
                   persisted>>
    /\ UNCHANGED drvVars
    /\ UNCHANGED runVars

\* line 130: the pre-build steps.
BS_PreBuild ==
    /\ pc = "bs_pre"
    /\ \E in_script \in BOOLEAN : run_build_steps("pre_build_steps", in_script, "bs_type")
    /\ UNCHANGED <<config, driverCfg, buildtype, clean_revert, effects, error, meta,
                   persisted>>
    /\ UNCHANGED drvVars

\* BS_EditorRunningExit without the sys.exit of line 136: the driver goes on
\* with the post-build steps.
BS_EditorRunningGoesOn ==
    /\ pc = "bs_type"
    /\ buildtype = "Editor"
    /\ config.editor_running
    /\ pc' = "bs_post"
    /\ UNCHANGED <<config, driverCfg, buildtype, clean_revert, effects, error, meta,
                   persisted>>
    /\ UNCHANGED drvVars
    /\ UNCHANGED runVars

\* lines 132-136: an Editor build while the editor runs ends the process.
BS_EditorRunningExit ==
    /\ pc = "bs_type"
    /\ buildtype = "Editor"
    /\ config.editor_running
    /\ pc' = "exited"
    /\ UNCHANGED <<config, driverCfg, buildtype, clean_revert, effects, error, meta,
                   persisted>>
    /\ UNCHANGED drvVars
    /\ UNCHANGED runVars

\* BS_EditorSteps returning to line 130: the pre-build steps follow the editor
\* steps.
BS_EditorStepsBeforePre ==
    /\ pc = "bs_type"
    /\ buildtype = "Editor"
    /\ ~config.editor_running
    /\ \E name \in {"game_editor_steps", "editor_steps"} :
         run_build_steps(name, TRUE, "bs_pre")
    /\ UNCHANGED <<config, driverCfg, buildtype, clean_revert, effects, error, meta,
                   persisted>>
    /\ UNCHANGED drvVars

\* lines 138-141: the editor steps of the script.
BS_EditorSteps ==
    /\ pc = "bs_type"
    /\ buildtype = "Editor"
    /\ ~config.editor_running
    /\ \E name \in {"game_editor_steps", "editor_steps"} :
         run_build_steps(name, TRUE, "bs_post")
    /\ UNCHANGED <<config, driverCfg, buildtype, clean_revert, effects, error, meta,
                   persisted>>
    /\ UNCHANGED drvVars

\* lines 142-145: the script has no editor steps; build the project editor.
BS_ProjectEditor ==
    /\ pc = "bs_type"
    /\ buildtype = "Editor"
    /\ ~config.editor_running
    /\ DirectAction("Build projEditor", "bs_post")
    /\ UNCHANGED <<driverCfg, buildtype, clean_revert, meta, persisted>>
    /\ UNCHANGED drvVars
    /\ UNCHANGED runVars

\* lines 147-149: the package steps of the script.
BS_PackageSteps ==
    /\ pc = "bs_type"
    /\ buildtype = "Package"
    /\ run_build_steps("package_steps", TRUE, "bs_post")
    /\ UNCHANGED <<config, driverCfg, buildtype, clean_revert, effects, error, meta,
                   persisted>>
    /\ UNCHANGED drvVars

\* lines 150-153: the script has no package steps; run the Package action.
BS_Package ==
    /\ pc = "bs_type"
    /\ buildtype = "Package"
    /\ DirectAction("Package", "bs_post")
    /\ UNCHANGED <<driverCfg, buildtype, clean_revert, meta, persisted>>
    /\ UNCHANGED drvVars
    /\ UNCHANGED runVars

\* lines 132, 147: a build type that is neither Editor nor Package.
BS_OtherType ==
    /\ pc = "bs_type"
    /\ buildtype \notin {"Editor", "Package"}
    /\ pc' = "bs_post"
    /\ UNCHANGED <<config, driverCfg, buildtype, clean_revert, effects, error, meta,
                   persisted>>
    /\ UNCHANGED drvVars
    /\ UNCHANGED runVars

\* line 155: the post-build steps.
BS_PostBuild ==
    /\ pc = "bs_post"
    /\ \E in_script \in BOOLEAN : run_build_steps("post_build_steps", in_script, "bs_save")
    /\ UNCHANGED <<config, driverCfg, buildtype, clean_revert, effects, error, meta,
                   persisted>>
    /\ UNCHANGED drvVars

\* lines 157-159: the final save.
BS_Save ==
    /\ pc = "bs_save"
    /\ persisted' = save_meta(meta)
    /\ pc' = "done"
    /\ UNCHANGED <<config, driverCfg, buildtype, clean_revert, effects, error, meta>>
    /\ UNCHANGED drvVars
    /\ UNCHANGED runVars

build_script ==
    \/ BS_Load
    \/ BS_NoVisualStudio
    \/ BS_BadScript
    \/ BS_HeaderTool
    \/ BS_ToolsBegin
    \/ BS_Tool
    \/ BS_ToolsEnd
    \/ BS_BuildOnly
    \/ BS_EngineEditor
    \/ BS_SkipEngineEditor
    \/ BS_PreBuild
    \/ BS_EditorRunningExit
    \/ BS_EditorSteps
    \/ BS_ProjectEditor
    \/ BS_PackageSteps
    \/ BS_Package
    \/ BS_OtherType
    \/ BS_PostBuild
    \/ BS_Save

----------------------------------------------------------------------------
(* Specifications *)

\* The configurations load_configuration may leave behind.
Configs ==
    [UE4EnginePath : {"", "E1"}, UE4EngineKeyName : {"", "key"},
     git_repo : {"", "repo"}, git_proj_branch : {"", "branch"},
     engine_path_name : EnginePathNames, editor_running : BOOLEAN, clean : BOOLEAN]

BuildTypes == {"Editor", "Package", "Game", "Server"}
BuildNames == {"", "my_steps"}

InitLocals ==
    /\ can_pull_engine = FALSE
    /\ clean_revert = FALSE
    /\ effects = <<>>
    /\ error = ""
    /\ steps_name = ""
    /\ ret = ""
    /\ idx = 0
    /\ step = NoStep
    /\ b = NoAction
    /\ stepEvents = <<>>
    /\ outcome = ""
    /\ written = {}
    /\ allowedFailure = ""

\* ensure_engine alone, on every configuration and override.
InitEngine ==
    /\ actions_write = TRUE
    /\ pc = "ee_entry"
    /\ config \in Configs
    /\ driverCfg = config
    /\ clean = config.clean
    /\ engine_override \in EngineOverrides
    /\ buildtype = "Editor"
    /\ build = ""
    /\ script = [seed_keys |-> {}, requested_keys |-> {}, updated_keys |-> {},
                 arg_names |-> {}]
    /\ meta = EmptyDict
    /\ persisted = EmptyDict
    /\ InitLocals

SpecEngine == InitEngine /\ [][ensure_engine]_vars

\* run_build_steps alone: the call of line 155 on every metadata store, for a
\* script whose steps use metadata and arguments.
InitSteps ==
    /\ actions_write = TRUE
    /\ pc = "bs_post"
    /\ config = [UE4EnginePath |-> "E1", UE4EngineKeyName |-> "key", git_repo |-> "",
                 git_proj_branch |-> "", engine_path_name |-> "",
                 editor_running |-> FALSE, clean |-> FALSE]
    /\ driverCfg = config
    /\ clean = config.clean
    /\ engine_override = ""
    /\ buildtype = "Editor"
    /\ build = ""
    /\ script = [seed_keys |-> MetaKeys, requested_keys |-> MetaKeys,
                 updated_keys |-> MetaKeys, arg_names |-> ArgNames]
    /\ meta \in Dicts(MetaKeys, MetaValues)
    /\ persisted \in {EmptyDict, meta}
    /\ InitLocals

NextSteps == BS_PostBuild \/ RunBuildSteps \/ BS_Save

SpecSteps == InitSteps /\ [][NextSteps]_vars

\* A package step alone: lines 281-301 of build_script.py on a Package action,
\* for every set of options, with and without --clean, in an environment that
\* is ready or not.  The step requests no metadata.
InitPackage ==
    /\ actions_write = TRUE
    /\ pc = "pkg_new"
    /\ \E c \in BOOLEAN, ready \in BOOLEAN :
         config = [UE4EnginePath |-> "E1", UE4EngineKeyName |-> "key", git_repo |-> "",
                   git_proj_branch |-> "", engine_path_name |-> "",
                   editor_running |-> FALSE, clean |-> c, environment_ready |-> ready]
    /\ driverCfg = config
    /\ clean = config.clean
    /\ engine_override = ""
    /\ buildtype = "Package"
    /\ build = ""
    /\ script = [seed_keys |-> {}, requested_keys |-> {}, updated_keys |-> {},
                 arg_names |-> {}]
    /\ meta = EmptyDict
    /\ persisted = EmptyDict
    /\ InitLocals

SpecPackage == InitPackage /\ [][Package]_vars

\* The whole program, from the first line of build_script, for a script whose
\* steps request a metadata key that nothing provides.
Init ==
    /\ actions_write = TRUE
    /\ pc = "start"
    /\ config \in {c \in Configs : /\ c.engine_path_name = ""
                                   /\ c.UE4EngineKeyName = "key"
                                   /\ (c.git_proj_branch = "") = (c.git_repo = "")
                                   /\ (c.git_repo # "" => c.UE4EnginePath = "")}
    /\ driverCfg = config
    /\ clean = config.clean
    /\ engine_override \in {"", "E2"}
    /\ (config.git_repo # "" => engine_override = "")
    /\ buildtype \in BuildTypes
    /\ build \in BuildNames
    /\ script = [seed_keys |-> {}, requested_keys |-> {"foo"}, updated_keys |-> {},
                 arg_names |-> {}]
    /\ meta = EmptyDict
    /\ persisted = EmptyDict
    /\ InitLocals

Next == build_script \/ ensure_engine \/ RunBuildSteps

Spec == Init /\ [][Next]_vars

\* The whole program as above, with actions that leave the configuration they
\* hold as it is.
InitReadOnly ==
    /\ actions_write = FALSE
    /\ pc = "start"
    /\ config \in {c \in Configs : /\ c.engine_path_name = ""
                                   /\ c.UE4EngineKeyName = "key"
                                   /\ (c.git_proj_branch = "") = (c.git_repo = "")
                                   /\ (c.git_repo # "" => c.UE4EnginePath = "")}
    /\ driverCfg = config
    /\ clean = config.clean
    /\ engine_override \in {"", "E2"}
    /\ (config.git_repo # "" => engine_override = "")
    /\ buildtype \in BuildTypes
    /\ build \in BuildNames
    /\ script = [seed_keys |-> {}, requested_keys |-> {"foo"}, updated_keys |-> {},
                 arg_names |-> {}]
    /\ meta = EmptyDict
    /\ persisted = EmptyDict
    /\ InitLocals

SpecReadOnly == InitReadOnly /\ [][Next]_vars

\* The driver from line 115 on, without --build, for a script whose steps
\* request and update a metadata key: the engine is ready, the tools are built
\* and the clean flag is put back.
InitGroups ==
    /\ actions_write = TRUE
    /\ pc = "bs_dispatch"
    /\ \E running \in BOOLEAN :
         config = [UE4EnginePath |-> "E1", UE4EngineKeyName |-> "key", git_repo |-> "",
                   git_proj_branch |-> "", engine_path_name |-> "",
                   editor_running |-> running, clean |-> FALSE]
    /\ driverCfg = config
    /\ clean = config.clean
    /\ engine_override = ""
    /\ buildtype \in {"Editor", "Package", "Server"}
    /\ build = ""
    /\ script = [seed_keys |-> {"foo"}, requested_keys |-> {"foo"},
                 updated_keys |-> {"foo"}, arg_names |-> {}]
    /\ meta \in Dicts({"foo"}, MetaValues)
    /\ persisted \in {EmptyDict, meta}
    /\ InitLocals

NextGroups ==
    \/ BS_EngineEditor
    \/ BS_SkipEngineEditor
    \/ BS_PreBuild
    \/ BS_EditorRunningExit
    \/ BS_EditorSteps
    \/ BS_ProjectEditor
    \/ BS_PackageSteps
    \/ BS_Package
    \/ BS_OtherType
    \/ BS_PostBuild
    \/ BS_Save
    \/ RunBuildSteps

SpecGroups == InitGroups /\ [][NextGroups]_vars

----------------------------------------------------------------------------
(* Claims *)

StepPcs == {"rbs_loop", "rbs_verify", "rbs_run", "rbs_meta"}

InEffects(e) == \E i \in 1..Len(effects) : effects[i] = e

InStepEvents(e) == \E i \in 1..Len(stepEvents) : stepEvents[i] = e

\* C1: a step with enabled = false is passed over: no action is built for it,
\* neither verify() nor run() is called, nothing of the metadata store, the
\* snapshot on disk, the configuration or the outside changes, no error is
\* raised and the loop is at its next iteration.
C1_DisabledStepSkipped ==
    [][(step'.enabled = FALSE /\ idx' # idx) =>
          /\ ~b'.made
          /\ stepEvents' = <<>>
          /\ pc' = "rbs_loop"
          /\ idx' = idx + 1
          /\ UNCHANGED <<meta, persisted, written, config, effects, error>>]_vars

C1_Witness ==
    /\ step.enabled = FALSE
    /\ outcome = "disabled"
    /\ pc = "rbs_loop"
    /\ idx = MaxSteps

\* C2 as stated: an enabled step whose action kind cannot be resolved (module
\* or class missing) ends the run before any action is built.
C2_UnresolvedKindIsFatal ==
    step.module \in {"missing_module", "no_class"} => (pc = "aborted" /\ ~b.made)

\* C2 amended: a module that cannot be imported ends the run before any action
\* is built; a module without the derived class gives a warning, no action is
\* built, nothing is verified or run, and the loop goes on with the next step.
C2_UnresolvedKind ==
    /\ step.module = "missing_module" =>
          /\ pc = "aborted"
          /\ error = "No module named missing_module"
          /\ ~b.made
          /\ stepEvents = <<>>
    /\ step.module = "no_class" =>
          /\ pc = "rbs_loop"
          /\ error = ""
          /\ ~b.made
          /\ stepEvents = <<"warning">>

C2_Witness ==
    /\ step.module = "no_class"
    /\ pc = "rbs_loop"
    /\ idx = 1

AllowedOutcomes == {"verify_allowed", "run_allowed"}

\* C3: when a step with allow_failure fails in verify() or run(), a warning is
\* given, the run is not aborted, run_build_steps returns to its caller (so no
\* further step of the group is taken) and nothing is written to the metadata;
\* until the caller starts the next group no step is in progress.
C3_AllowedFailureEndsGroup ==
    /\ [][(pc \in {"rbs_verify", "rbs_run"} /\ outcome' \in AllowedOutcomes) =>
             /\ pc' = ret
             /\ error' = ""
             /\ stepEvents'[Len(stepEvents')] = "warning"
             /\ (pc = "rbs_verify" => ~InStepEvents("run")')
             /\ UNCHANGED <<meta, persisted, config>>]_vars
    /\ [](outcome \in AllowedOutcomes =>
             /\ pc \notin StepPcs
             /\ (pc = "aborted" => error \notin {"verify failed", "run failed"}))

\* A step of the post-build group runs after an allowed failure has cut the
\* pre-build group short.
C3_Witness ==
    /\ allowedFailure = "pre_build_steps"
    /\ steps_name = "post_build_steps"
    /\ pc = "rbs_run"

FatalOutcomes == {"verify_fatal", "run_fatal"}

\* C4: when a step without allow_failure fails in verify() or run(), the run
\* is aborted with the failure's message: after a failed verify() run() is not
\* called, the step writes no metadata, and nothing happens after the abort.
C4_FailureIsFatal ==
    /\ [](outcome \in FatalOutcomes =>
             /\ pc = "aborted"
             /\ ~step.allow_failure
             /\ error = (IF outcome = "verify_fatal" THEN "verify failed" ELSE "run failed")
             /\ (outcome = "verify_fatal" => ~InStepEvents("run"))
             /\ ~InStepEvents("meta")
             /\ ~InStepEvents("save"))
    /\ [][pc # "aborted"]_vars

C4_Witness ==
    /\ outcome = "verify_fatal"
    /\ pc = "aborted"
    /\ steps_name = "pre_build_steps"

\* C5 as stated: after a step succeeded, every key of its meta_updates is in
\* the store with the value of the output it names.
C5_EveryUpdateStored ==
    (outcome = "done" /\ pc = "rbs_loop") =>
        \A k \in DOMAIN step.meta_updates :
            /\ k \in DOMAIN meta
            /\ step.meta_updates[k] \in DOMAIN b.outputs
            /\ meta[k] = b.outputs[step.meta_updates[k]]

\* C5 amended: after a step succeeded, every key of its meta_updates whose
\* named output the action has (and is not None) is in the store with that
\* value, and every other key of the store is as it was before; a step that
\* requests a key is built with the value the store holds for it, unless its
\* static args give the same name.
C5_UpdatesStored ==
    /\ [][pc = "rbs_meta" =>
             /\ \A k \in DOMAIN step'.meta_updates :
                   step'.meta_updates[k] \in DOMAIN b'.outputs =>
                       (k \in DOMAIN meta' /\ meta'[k] = b'.outputs[step'.meta_updates[k]])
             /\ \A k \in (DOMAIN meta) \cup (DOMAIN meta') :
                   (k \notin DOMAIN step'.meta_updates
                       \/ step'.meta_updates[k] \notin DOMAIN b'.outputs) =>
                       (k \in DOMAIN meta /\ k \in DOMAIN meta' /\ meta'[k] = meta[k])]_vars
    /\ [](pc = "rbs_verify" =>
             \A k \in step.meta \ DOMAIN step.args :
                 k \in DOMAIN b.kwargs /\ b.kwargs[k] = meta[k])

\* meta_updates {foo: barAttr} with barAttr = 42 gives foo = 42.
C5_Witness ==
    /\ outcome = "done"
    /\ step.meta_updates = ("foo" :> "barAttr")
    /\ b.outputs = ("barAttr" :> 42)
    /\ "foo" \in DOMAIN meta
    /\ meta["foo"] = 42

\* C6: whatever steps of this run have written to the metadata store is in the
\* snapshot on disk, with the value the store holds, whenever a step's action
\* exists, a step begins, or the run has ended or was aborted.
C6_WrittenIsPersisted ==
    \A k \in written : k \in DOMAIN persisted /\ k \in DOMAIN meta /\ persisted[k] = meta[k]

\* The run is aborted in a step after one that wrote foo = 42.
C6_Witness ==
    /\ pc = "aborted"
    /\ "foo" \in written
    /\ "foo" \in DOMAIN persisted
    /\ persisted["foo"] = 42
    /\ idx = 2

\* C7 as stated: no write of an action to the configuration it was given is
\* seen by the driver or by an action built later: while the program runs the
\* driver's configuration is what the driver alone made of it, and so is the
\* configuration a step's action is built with.
C7_ConfigIsolated ==
    /\ pc \notin {"aborted", "exited", "returned", "done"} => config = driverCfg
    /\ pc = "rbs_verify" => b.config = driverCfg

\* C8: a step requesting a metadata key the store does not hold ends the run
\* with an error naming a missing key; no action is built for it and nothing
\* is verified or run; every action that was built got all the keys its step
\* requested.
C8_MissingKeyIsError ==
    /\ outcome = "missing_meta" =>
          /\ pc = "aborted"
          /\ ~b.made
          /\ stepEvents = <<>>
          /\ \E k \in step.meta \ DOMAIN meta : error = "missing meta key: " \o k
    /\ b.made => step.meta \subseteq DOMAIN meta

C8_Witness ==
    /\ outcome = "missing_meta"
    /\ step.meta = {"foo"}
    /\ "bar" \in DOMAIN meta
    /\ error = "missing meta key: foo"

\* C9: with no engine path, no complete git coordinates and no override,
\* ensure_engine fails at once: nothing was asked, created, pulled, registered,
\* synced or launched.
C9_NoPathFailsAtOnce ==
    [][(/\ pc = "ee_entry"
        /\ config.UE4EnginePath = ""
        /\ (config.git_repo = "" \/ config.git_proj_branch = "")
        /\ engine_override = "") =>
           /\ pc' = "aborted"
           /\ error' = "Static engine placement required for non-git pulled engine."
           /\ effects = <<>>
           /\ UNCHANGED <<effects, config, driverCfg>>]_vars

C9_Witness ==
    /\ pc = "aborted"
    /\ config.UE4EnginePath = ""
    /\ config.git_repo # ""
    /\ config.git_proj_branch = ""
    /\ engine_override = ""

\* C10: with the editor running neither the dependency sync nor the build-tool
\* generation is ever invoked, and once the engine is registered ensure_engine
\* returns without any further call.
C10_EditorRunningSkipsSync ==
    /\ [](config.editor_running => (~InEffects("sync") /\ ~InEffects("genproj")))
    /\ [][(pc = "ee_deps" /\ config.editor_running) =>
             (pc' = "ee_return" /\ UNCHANGED <<effects, error, config>>)]_vars

C10_Witness ==
    /\ pc = "ee_return"
    /\ config.editor_running
    /\ InEffects("register")
    /\ ~InEffects("sync")

CanPull(cfg) == cfg.git_repo # "" /\ cfg.git_proj_branch # ""

Count(e) == Cardinality({i \in 1..Len(effects) : effects[i] = e})

\* C11 as stated: with no engine path known and git coordinates configured the
\* engine goes where the git branch of the code puts it (the default location,
\* or the location the user names when asked), also when an override is given.
C11_GitCoordinatesFirst ==
    [][(/\ pc = "ee_entry"
        /\ config.UE4EnginePath = ""
        /\ CanPull(config)
        /\ pc' = "ee_git") =>
           config'.UE4EnginePath \in PromptPaths \cup {DefaultEnginePath(config)}]_vars

\* C11 amended: with no engine path known, a given override is the engine path
\* (made absolute) whether or not git coordinates are configured, and then
\* nothing is asked or created; without an override and with git coordinates
\* the user is asked, and the path is the one the user names or else the
\* default location; without either the pass fails.
C11_OverrideFirst ==
    [][(pc = "ee_entry" /\ config.UE4EnginePath = "") =>
          IF engine_override # ""
            THEN /\ pc' = "ee_git"
                 /\ config'.UE4EnginePath = abspath(engine_override)
                 /\ UNCHANGED effects
            ELSE IF CanPull(config)
                   THEN /\ effects'[1] = "confirm"
                        /\ pc' \in {"ee_git", "aborted"}
                        /\ pc' = "ee_git" =>
                              IF InEffects("prompt")'
                                THEN config'.UE4EnginePath \in PromptPaths
                                ELSE config'.UE4EnginePath = DefaultEnginePath(config)
                        /\ pc' = "aborted" =>
                              /\ error' = "Unable to create engine directory!"
                              /\ effects'[Len(effects')] = "makedirs"
                   ELSE pc' = "aborted"]_vars

\* Git coordinates and the override E2: the engine path is E2.
C11_Witness ==
    /\ pc = "ee_git"
    /\ CanPull(config)
    /\ engine_override = "E2"
    /\ config.UE4EnginePath = "E2"
    /\ effects = <<>>

ConflictMessage ==
    "Specific engine path requested, but engine path for this project already exists?"

\* C12: with an engine path known, an override that is not empty and is not
\* that path (as a string) ends the pass before anything is pulled, registered,
\* synced or generated; an empty override or one equal to the path does not.
C12_ConflictingOverrideFails ==
    /\ [][(pc = "ee_entry" /\ config.UE4EnginePath # "") =>
             IF engine_override # "" /\ engine_override # config.UE4EnginePath
               THEN /\ pc' = "aborted"
                    /\ error' = ConflictMessage
                    /\ effects' = <<>>
                    /\ UNCHANGED config
               ELSE /\ pc' = "ee_git"
                    /\ error' = ""]_vars
    /\ [](error = ConflictMessage => (pc = "aborted" /\ effects = <<>>))

\* The path E1 is known, git is configured and the override is E2.
C12_Witness ==
    /\ pc = "aborted"
    /\ error = ConflictMessage
    /\ config.UE4EnginePath = "E1"
    /\ engine_override = "E2"
    /\ CanPull(config)

PastRegistration ==
    pc \in {"ee_deps", "ee_ubt", "ee_return"} \/ InEffects("sync")

\* C13 as stated: a pass that has come to the dependency sync or to its end
\* has registered the engine exactly once.
C13_AlwaysRegistered ==
    PastRegistration => Count("register") = 1

\* C13 amended: a pass that has come to the dependency sync or to its end has
\* registered the engine exactly once when the engine has a key name and not
\* at all when it has none; a registration comes after the path is known
\* (after every question, directory creation and pull) and before the sync and
\* the build-tool generation.
C13_RegisteredWhenKeyed ==
    /\ PastRegistration =>
          Count("register") = (IF config.UE4EngineKeyName # "" THEN 1 ELSE 0)
    /\ Count("register") <= 1
    /\ \A i, j \in 1..Len(effects) :
          effects[i] = "register" =>
              /\ effects[j] \in {"sync", "genproj"} => i < j
              /\ effects[j] \in {"confirm", "prompt", "makedirs", "git"} => j < i

\* An engine without a key name is synced and ready without a registration.
C13_Witness ==
    /\ pc = "ee_return"
    /\ config.UE4EngineKeyName = ""
    /\ InEffects("sync")
    /\ ~InEffects("register")

BootPcs == {"start", "ee_entry", "ee_git", "ee_setup", "ee_register", "ee_deps", "ee_ubt"}

GroupRank(name) ==
    CASE name = "" -> 0
      [] name = "pre_build_steps" -> 1
      [] name \in {"game_editor_steps", "editor_steps", "package_steps"} -> 2
      [] name = "post_build_steps" -> 3
      [] OTHER -> 4

\* C14: without --build and with build type Editor or Package, no step of any
\* group is taken before ensure_engine has returned and none after the run was
\* aborted; the groups are entered in the order pre-build, group of the build
\* type, post-build, each at most once, and a step is only taken in the group
\* entered last.
C14_PhaseOrder ==
    /\ [][(pc \in BootPcs) =>
             (pc' \in BootPcs \cup {"ee_return", "aborted", "returned"})]_vars
    /\ [](pc \in BootPcs \cup {"ee_return"} =>
             (steps_name = "" /\ stepEvents = <<>> /\ outcome = ""))
    /\ [][pc # "aborted"]_vars
    /\ []((pc \in StepPcs /\ build = "") => GroupRank(steps_name) \in 1..3)
    /\ [][(build = "" /\ buildtype \in {"Editor", "Package"} /\ steps_name' # steps_name) =>
             /\ GroupRank(steps_name') > GroupRank(steps_name)
             /\ GroupRank(steps_name') <= 3
             /\ (GroupRank(steps_name') = 2 =>
                    ((steps_name' = "package_steps") = (buildtype = "Package")))
             /\ pc \notin StepPcs]_vars

\* A step of the post-build group is verified after an allowed failure ended
\* the package group.
C14_Witness ==
    /\ build = ""
    /\ buildtype = "Package"
    /\ allowedFailure = "package_steps"
    /\ steps_name = "post_build_steps"
    /\ pc = "rbs_verify"

EngineBuilds == {"Build UnrealHeaderTool", "Build tool", "Build UE4Editor"}

\* C15 as stated: with --build naming a group, neither the header tool nor a
\* configured engine tool nor the engine editor is built, and no group other
\* than the named one is entered.
C15_BuildOnlyGroup ==
    build # "" =>
        /\ \A i \in 1..Len(effects) : effects[i] \notin EngineBuilds
        /\ steps_name \in {"", build}

\* The entries of effects that are launches of the packaging process.
Launches == {i \in 1..Len(effects) : effects[i][1] = "launch"}

Has(entry, flag) == \E j \in 1..Len(entry) : entry[j] = flag

\* C16: when run() of the Package action has returned False its error field
\* holds a message: the one of the failed verify(), and then nothing was
\* launched, or the one of the failed launch; when it has returned True the
\* packaging process was launched exactly once and exited with 0; run() never
\* launches the process twice.
C16_RunResult ==
    /\ Cardinality(Launches) <= 1
    /\ (pc = "pkg_done" /\ outcome = "False") =>
          /\ b.error # ""
          /\ \/ b.error = EnvironmentMessage /\ Launches = {}
             \/ /\ b.error = "Unable to build proj!"
                /\ \E i \in Launches : effects[i + 1] = <<"exit nonzero">>
    /\ (pc = "pkg_done" /\ outcome = "True") =>
          /\ Cardinality(Launches) = 1
          /\ \A i \in Launches : effects[i + 1] = <<"exit 0">>

\* run() has returned False after the packaging process failed.
C16_Witness ==
    /\ pc = "pkg_done"
    /\ outcome = "False"
    /\ b.error = "Unable to build proj!"
    /\ Cardinality(Launches) = 1

\* C17 as stated: a call of verify() leaves every field of the action as it was.
C17_VerifyChangesNothing ==
    [][stepEvents' # stepEvents => b' = b]_vars

\* C17 amended: a call of verify() in an environment that is ready sets a
\* build_type that is none of standalone, client, server to standalone and
\* leaves every other field of the action, the configuration and the outside
\* as they were; in an environment that is not ready it changes nothing; a
\* second call changes nothing and returns what the first returned.
C17_VerifyDefaultsBuildType ==
    [][stepEvents' # stepEvents =>
          /\ b' = (IF b.config.environment_ready /\ b.build_type \notin valid_build_types
                     THEN [b EXCEPT !.build_type = "standalone"]
                     ELSE b)
          /\ UNCHANGED <<config, effects, error>>
          /\ stepEvents'[Len(stepEvents')][2] =
                (IF b.config.environment_ready THEN "" ELSE EnvironmentMessage)
          /\ Len(stepEvents) >= 1 =>
                /\ b' = b
                /\ stepEvents'[Len(stepEvents')] = stepEvents[Len(stepEvents)]]_vars

\* verify() was called twice on an action built with build_type "bogus".
C17_Witness ==
    /\ pc = "pkg_made"
    /\ Len(stepEvents) = 2
    /\ Get(b.kwargs, "build_type", "") = "bogus"
    /\ b.build_type = "standalone"
    /\ stepEvents[2] = <<"verify", "">>

\* C18: the argument vector of every launch of the packaging process holds
\* -build, -cook, -package, -stage, -archive exactly for those of the toggles
\* that the args of the step give as true or do not give, whatever the other
\* options of the action are.
C18_TogglesPassedThrough ==
    \A i \in Launches : \A t \in Toggles :
        Has(effects[i], "-" \o t) <=> Get(step.args, t, TRUE)

\* stage is off and archive is not given: -archive is passed, -stage and -pak
\* are not.
C18_Witness ==
    /\ pc = "pkg_done"
    /\ Get(step.args, "stage", TRUE) = FALSE
    /\ "archive" \notin DOMAIN step.args
    /\ \E i \in Launches :
          /\ Has(effects[i], "-archive")
          /\ ~Has(effects[i], "-stage")
          /\ ~Has(effects[i], "-pak")

ExitEntries == {"exit 0", "exit nonzero"}

\* C19: the dependency sync is invoked at most once and only with the editor
\* not running, and exactly once in a pass that came past it; the build tool is
\* looked for only after the sync exited with 0, and its generation is invoked
\* at most once, only after the build tool was found missing; a call that exits
\* with another code than 0 is the last thing the pass does, the run is
\* aborted with the message of that call; a pass that reached its end had no
\* failing call.
C19_SyncAndGenerateOnce ==
    /\ Count("sync") <= 1
    /\ Count("genproj") <= 1
    /\ \A i \in 1..Len(effects) :
          /\ effects[i] = "exit nonzero" =>
                /\ i = Len(effects)
                /\ pc = "aborted"
                /\ error = (IF effects[i - 1] = "sync"
                              THEN "Engine dependencies Failed to Sync!"
                              ELSE "Failed to build UnrealBuildTool.exe!")
          /\ effects[i] = "sync" =>
                /\ ~config.editor_running
                /\ i < Len(effects)
                /\ effects[i + 1] \in ExitEntries
          /\ effects[i] \in {"ubt present", "ubt missing"} =>
                /\ i >= 3
                /\ effects[i - 1] = "exit 0"
                /\ effects[i - 2] = "sync"
          /\ effects[i] = "genproj" =>
                /\ i >= 2
                /\ effects[i - 1] = "ubt missing"
                /\ i < Len(effects)
                /\ effects[i + 1] \in ExitEntries
          /\ effects[i] = "ubt missing" =>
                (i < Len(effects) /\ effects[i + 1] = "genproj")
    /\ (pc \in {"ee_ubt", "ee_return"} /\ ~config.editor_running) => Count("sync") = 1
    /\ pc = "ee_return" =>
          /\ ~InEffects("exit nonzero")
          /\ error = ""

\* The sync exited with 0, the build tool was missing and its generation failed.
C19_Witness ==
    /\ pc = "aborted"
    /\ Len(effects) >= 5
    /\ SubSeq(effects, Len(effects) - 4, Len(effects)) =
          <<"sync", "exit 0", "ubt missing", "genproj", "exit nonzero">>
    /\ error = "Failed to build UnrealBuildTool.exe!"

\* C20: the action of a step is built with exactly the names the step
\* requests from the metadata and the names of its static args; a name of the
\* static args has the static value, also when the step requests the same name
\* from the metadata; every other requested name has the value of the store.
C20_StaticArgsOverride ==
    pc \in {"rbs_verify", "rbs_run", "rbs_meta"} =>
        /\ DOMAIN b.kwargs = step.meta \cup DOMAIN step.args
        /\ \A k \in DOMAIN step.args : b.kwargs[k] = step.args[k]
        /\ \A k \in step.meta \ DOMAIN step.args : b.kwargs[k] = meta[k]

\* foo is requested and given as static arg 7 while the store holds 42 for it.
C20_Witness ==
    /\ pc = "rbs_verify"
    /\ step.meta = {"foo", "bar"}
    /\ "foo" \in DOMAIN step.args
    /\ meta["foo"] = 42
    /\ b.kwargs["foo"] = 7
    /\ b.kwargs["bar"] = 41

GroupEntryPcs == {"bs_dispatch", "bs_pre", "bs_type", "bs_post"}

\* C21: with actions that do not write to the configuration, the clean flag of
\* the driver's configuration is the one of the command line wherever a step
\* group is entered and while its steps run, and so is the flag of the
\* configuration every step's action is built with; the flag differs from the
\* command line only under build type Package, while the engine tools are
\* built or after the build of a tool or of the engine editor ended the run.
C21_CleanAsGiven ==
    /\ pc \in GroupEntryPcs \cup StepPcs \cup {"bs_save", "done", "exited"} =>
          config.clean = clean
    /\ (pc \in StepPcs /\ b.made) => b.config.clean = clean
    /\ config.clean # clean =>
          /\ buildtype = "Package"
          /\ config.clean = FALSE
          /\ pc \in {"bs_tool_loop", "aborted"}
    /\ (pc = "bs_tool_loop" /\ buildtype = "Package") => config.clean = FALSE

\* Packaging with --clean: a pre-build step is built on a configuration that
\* cleans, after an engine tool and the engine editor were built.
C21_Witness ==
    /\ buildtype = "Package"
    /\ clean = TRUE
    /\ steps_name = "pre_build_steps"
    /\ pc = "rbs_verify"
    /\ b.config.clean = TRUE
    /\ InEffects("Build tool")
    /\ InEffects("Build UE4Editor")

\* C22: without --build, with build type Editor and the editor running, the
\* engine editor is not built, the pre-build group is run, and at line 136 the
\* process exits: no other group is entered, the project editor is not built,
\* the final save is not made and nothing happens after the exit; what the
\* pre-build steps wrote to the metadata is on disk when the process exits.
C22_EditorRunningExits ==
    /\ []((build = "" /\ buildtype = "Editor" /\ config.editor_running) =>
             /\ steps_name \in {"", "pre_build_steps"}
             /\ pc \notin {"bs_post", "bs_save", "done"}
             /\ ~InEffects("Build UE4Editor")
             /\ ~InEffects("Build projEditor")
             /\ (pc = "exited" =>
                    /\ steps_name = "pre_build_steps"
                    /\ error = ""
                    /\ \A k \in written :
                          k \in DOMAIN persisted /\ k \in DOMAIN meta
                             /\ persisted[k] = meta[k]))
    /\ [][(pc = "bs_type" /\ buildtype = "Editor" /\ config.editor_running) =>
             /\ pc' = "exited"
             /\ UNCHANGED <<meta, persisted, effects, steps_name, config>>]_vars
    /\ [][pc # "exited"]_vars

\* The process has exited after the pre-build group ran to its end and one of
\* its steps wrote foo = 42, which is on disk.
C22_Witness ==
    /\ pc = "exited"
    /\ buildtype = "Editor"
    /\ config.editor_running
    /\ written = {"foo"}
    /\ persisted = ("foo" :> 42)
    /\ outcome = "end_of_list"

====
